---- MODULE Spec2Model ----
(***************************************************************************)
(* picraft.turtle.TurtleCache: a write-through cache of the world's blocks *)
(* with thread-local, re-entrant batches, shared by several threads.       *)
(*                                                                         *)
(* Python dicts are functions with a finite domain (<<>> is the empty      *)
(* dict); threading.local() is a per-thread function whose domain is the   *)
(* set of attributes the thread has set.  A call of __getitem__ or         *)
(* __setitem__ is a sequence of steps: taking the lock, the remote call    *)
(* being in flight, and the return or raise that releases the lock.        *)
(***************************************************************************)
EXTENDS Integers, FiniteSets, Sequences, TLC

\* ---- bounds of the model ----
\* the calls the threads of SpecThreads make between them
MaxOpsThreads == 7

\* the deepest nesting of scopes on one thread
MaxLevel == 2

\* the budget that is never used up: one above every bounded budget
Unlimited == MaxOpsThreads + 1

\* the calls the two threads make between them where every call must also complete
MaxOpsFair == 5

Threads == {"A", "B"}
Coords == {"K1", "K2"}
Blocks == {"air", "stone"}
NoThread == "nobody"

VARIABLES
    world,      \* self._world.blocks: the remote store, Coords -> Blocks
    cache,      \* self._cache: dict position -> block
    lock,       \* self._lock: the thread holding it, or NoThread
    batch,      \* self._batch: per thread, the attributes level/state (or none)
    pc,         \* where each thread is inside __getitem__/__setitem__
    frame,      \* the arguments and locals of each thread's current (or last) call, and
                \* what the call found: the cache as it was when a set took the lock, the
                \* most recent set on each position a get asks for (while it stays so),
                \* the positions set just before an inner scope was left
    outcome,    \* how each thread's last call ended: what it raised, what it returned
    rlog,       \* the remote calls each thread issued during its current (or last) call
    scope,      \* per thread, about its open (or just closed) batch: the last value set
                \* per position, the cache as it was at the first enter, the deepest level
    latest,     \* per position: the most recent set call that went to the shared cache
    untouched,  \* the positions no set call has named yet
    caller,     \* the thread whose call the last step was, NoThread after any other step
    budget,     \* the calls still allowed, or Unlimited
    agent,      \* a Turtle with its TurtleScreen: _state, _last_position, _history, and
                \* the screen's world, cache and batch (NoAgent when none was constructed)
    journal     \* the Turtle methods called so far, each with what it found

vars == <<world, cache, lock, batch, pc, frame, outcome, rlog, scope, latest, untouched,
          caller, budget, agent, journal>>

\* ---- dict helpers ----
EmptyDict == <<>>

Dicts(K, V) == UNION {[D -> V] : D \in SUBSET K}

\* dict.update(m): m's pairs replace or extend d's
DictUpdate(d, m) == [k \in DOMAIN d \cup DOMAIN m |-> IF k \in DOMAIN m THEN m[k] ELSE d[k]]

Restrict(d, K) == [k \in DOMAIN d \cap K |-> d[k]]

\* ---- thread-local batch ----
NoBatch == EmptyDict

HasBatch(t) == "level" \in DOMAIN batch[t]

\* try: batch = self._batch.state / except AttributeError: batch = {}
BatchState(t) == IF "state" \in DOMAIN batch[t] THEN batch[t].state ELSE EmptyDict

\* ---- the pure parts of __getitem__, __setitem__ and __exit__ ----
\* a slip: the positions the overlay holds are fetched as well
Unknown_IgnoresBatch(positions, c, b) == positions \ DOMAIN c

\* unknown = set(positions) - set(self._cache.keys()) - set(batch.keys())
Unknown(positions, c, b) == (positions \ DOMAIN c) \ DOMAIN b

\* batch.get(v, self._cache[v]) evaluates self._cache[v] whether or not v is in batch
GetRaisesKeyError(positions, c, b) == \E v \in positions : v \notin DOMAIN c

\* {v: batch.get(v, self._cache[v]) for v in positions}
GetResult(positions, c, b) ==
    [v \in positions |-> IF v \in DOMAIN b THEN b[v] ELSE c[v]]

\* `b != self._cache[v]` raises KeyError on a position the cache does not hold
SetRaisesKeyError(blocks, c) == \E v \in DOMAIN blocks : v \notin DOMAIN c

\* diff = {v: b for v, b in zip(positions, blocks) if b != self._cache[v]}
Diff(blocks, c) ==
    Restrict(blocks, {v \in DOMAIN blocks : blocks[v] # c[v]})

\* a slip: the overlay keeps the first value set per position
BatchUpdate_KeepsFirst(state, blocks) == DictUpdate(blocks, state)

\* self._batch.state.update({v: b for (v, b) in zip(positions, blocks)})
BatchUpdate(state, blocks) == DictUpdate(state, blocks)

\* a slip: the overlay is flushed whether or not the block raised
ExitFlushes_Always(failed) == TRUE

\* `if exc_type is None:` in __exit__
ExitFlushes(failed) == ~failed

\* a slip: the diff that was sent is not merged into the cache
MergeAfterSend_Skips(c, diff) == c

\* self._cache.update(diff), reached only when the remote write returned
MergeAfterSend(c, diff) == DictUpdate(c, diff)

\* a slip: the diff is merged before the remote write is known to have succeeded
CacheAfterFailedSend_Merges(c, diff) == DictUpdate(c, diff)

\* the cache after a remote write that raised: the update is skipped
CacheAfterFailedSend(c, diff) == c

\* what a remote write that raises may have applied already: any part of it
TornWrites(diff) == {Restrict(diff, K) : K \in SUBSET DOMAIN diff}

\* ---- call frames ----
Frame(op, positions, blocks, failed) ==
    [op |-> op, positions |-> positions, blocks |-> blocks, failed |-> failed,
     batch |-> EmptyDict, unknown |-> {}, diff |-> EmptyDict, flush |-> FALSE,
     before |-> EmptyDict, seen |-> EmptyDict, undone |-> EmptyDict, dropped |-> EmptyDict,
     inside |-> {}]

NoFrame == Frame("none", {}, EmptyDict, FALSE)

Outcome(raised, ret) == [raised |-> raised, ret |-> ret]

Running == Outcome("running", EmptyDict)

Returned(ret) == Outcome("none", ret)

Raised(e) == Outcome(e, EmptyDict)

NoScope == [written |-> EmptyDict, entered |-> EmptyDict, deepest |-> 0, overwrote |-> FALSE]

\* a remote call as the log holds it: in flight, then answered or failed
Remote(call, keys, data) == [call |-> call, keys |-> keys, data |-> data, status |-> "pending"]

Answered(log, status) == [i \in DOMAIN log |-> [log[i] EXCEPT !.status = status]]

\* the set call of t's frame, as the most recent one on each of its positions
Record(t) ==
    DictUpdate(latest, [v \in DOMAIN frame[t].blocks |->
        [by |-> t, value |-> frame[t].blocks[v],
         over |-> {a \in Threads \ {t} : v \in DOMAIN BatchState(a)}]])

\* the frames once t's set call has ended: what a get found to be the most recent set
\* on a position of that call is the most recent no longer
Superseded(t) ==
    [x \in Threads |->
        [frame[x] EXCEPT !.seen = Restrict(@, DOMAIN @ \ DOMAIN frame[t].blocks)]]

\* how the call that `latest` holds for position v ended, while its thread has made no
\* other call since: a set outside a batch, a batch flushed to the end, or neither
Kind(v) ==
    LET t == latest[v].by
        done == pc[t] = "idle" /\ v \in DOMAIN frame[t].blocks
                    /\ frame[t].blocks[v] = latest[v].value
    IN  IF done /\ frame[t].op = "set" /\ ~HasBatch(t) THEN "set"
        ELSE IF done /\ frame[t].flush /\ ~frame[t].failed /\ outcome[t].raised = "none"
             THEN "flushed"
        ELSE "other"

NoAgent == EmptyDict

\* Blocks are only ever compared with the block at the same position, so the model is
\* the same under any renaming of the blocks at one position: the world starts as air.
InitCache ==
    /\ world = [v \in Coords |-> "air"]
    /\ cache = EmptyDict
    /\ lock = NoThread
    /\ batch = [t \in Threads |-> NoBatch]
    /\ pc = [t \in Threads |-> "idle"]
    /\ frame = [t \in Threads |-> NoFrame]
    /\ outcome = [t \in Threads |-> Returned(EmptyDict)]
    /\ rlog = [t \in Threads |-> <<>>]
    /\ scope = [t \in Threads |-> NoScope]
    /\ latest = EmptyDict
    /\ untouched = Coords
    /\ caller = NoThread
    /\ budget \in {Unlimited, MaxOpsThreads, MaxOpsFair}

Init ==
    /\ InitCache
    /\ agent = NoAgent
    /\ journal = <<>>

InitUnlimited == Init /\ budget = Unlimited

InitThreads == Init /\ budget = MaxOpsThreads

\* a thread makes a call: the bookkeeping every call shares
Call(t, f) ==
    /\ pc[t] = "idle"
    /\ budget # 0
    /\ budget' = IF budget = Unlimited THEN Unlimited ELSE budget - 1
    /\ caller' = t
    /\ frame' = [frame EXCEPT ![t] = f]
    /\ rlog' = [rlog EXCEPT ![t] = <<>>]
    /\ untouched' = untouched \ DOMAIN f.blocks
    /\ UNCHANGED <<agent, journal>>

\* a step inside a call already made
Inside(t) ==
    /\ caller' = NoThread
    /\ UNCHANGED <<budget, agent, journal>>

\* ---- __enter__ ----
Enter(t) ==
    /\ Call(t, Frame("enter", {}, EmptyDict, FALSE))
    /\ HasBatch(t) => batch[t].level < MaxLevel
    /\ batch' = [batch EXCEPT ![t] =
                    IF HasBatch(t)
                    THEN [level |-> batch[t].level + 1, state |-> batch[t].state]
                    ELSE [level |-> 1, state |-> EmptyDict]]
    /\ scope' = [scope EXCEPT ![t] =
                    IF HasBatch(t)
                    THEN [@ EXCEPT !.deepest = IF batch[t].level + 1 > @ THEN batch[t].level + 1 ELSE @]
                    ELSE [written |-> EmptyDict, entered |-> cache, deepest |-> 1,
                          overwrote |-> FALSE]]
    /\ outcome' = [outcome EXCEPT ![t] = Returned(EmptyDict)]
    /\ UNCHANGED <<world, cache, lock, pc, latest>>

\* ---- __exit__ ----
\* a slip: an __exit__ without a batch is ignored
ExitNoBatch_Ignored(t, failed) ==
    /\ Call(t, Frame("exit", {}, EmptyDict, failed))
    /\ ~HasBatch(t)
    /\ outcome' = [outcome EXCEPT ![t] = Returned(EmptyDict)]
    /\ UNCHANGED <<world, cache, lock, batch, pc, scope, latest>>

\* self._batch.level -= 1 on a thread without a batch: AttributeError
ExitNoBatch(t, failed) ==
    /\ Call(t, Frame("exit", {}, EmptyDict, failed))
    /\ ~HasBatch(t)
    /\ outcome' = [outcome EXCEPT ![t] = Raised("AttributeError")]
    /\ UNCHANGED <<world, cache, lock, batch, pc, scope, latest>>

\* an inner scope closes: the level drops and stays above zero
ExitInner(t, failed) ==
    /\ HasBatch(t)
    /\ batch[t].level - 1 # 0
    /\ Call(t, [Frame("exit", {}, EmptyDict, failed)
                    EXCEPT !.inside = IF frame[t].op = "set" THEN frame[t].positions ELSE {}])
    /\ batch' = [batch EXCEPT ![t] = [level |-> batch[t].level - 1, state |-> batch[t].state]]
    /\ outcome' = [outcome EXCEPT ![t] = Returned(EmptyDict)]
    /\ UNCHANGED <<world, cache, lock, pc, scope, latest>>

\* the frame of the __exit__ that takes the level to zero
OuterExit(t, failed) ==
    [Frame("exit", DOMAIN batch[t].state, batch[t].state, failed)
        EXCEPT !.flush = TRUE,
               !.inside = IF frame[t].op = "exit" /\ frame[t].failed /\ ~frame[t].flush
                          THEN frame[t].inside ELSE {}]

\* a slip: after an exception the level is lowered and the overlay is kept
ExitDiscard_KeepsOverlay(t, failed) ==
    /\ HasBatch(t)
    /\ batch[t].level - 1 = 0
    /\ ~ExitFlushes(failed)
    /\ Call(t, OuterExit(t, failed))
    /\ batch' = [batch EXCEPT ![t] = [level |-> 0, state |-> batch[t].state]]
    /\ outcome' = [outcome EXCEPT ![t] = Returned(EmptyDict)]
    /\ scope' = [scope EXCEPT ![t].written = EmptyDict]
    /\ UNCHANGED <<world, cache, lock, pc, latest>>

\* the outermost scope closes after an exception: the overlay is dropped
ExitDiscard(t, failed) ==
    /\ HasBatch(t)
    /\ batch[t].level - 1 = 0
    /\ ~ExitFlushes(failed)
    /\ Call(t, OuterExit(t, failed))
    /\ batch' = [batch EXCEPT ![t] = NoBatch]
    /\ outcome' = [outcome EXCEPT ![t] = Returned(EmptyDict)]
    /\ scope' = [scope EXCEPT ![t].written = EmptyDict]
    /\ UNCHANGED <<world, cache, lock, pc, latest>>

\* the outermost scope closes normally: self.__setitem__(state.keys(), state.values())
\* runs with the batch attributes already deleted
ExitFlush(t, failed) ==
    /\ HasBatch(t)
    /\ batch[t].level - 1 = 0
    /\ ExitFlushes(failed)
    /\ Call(t, OuterExit(t, failed))
    /\ batch' = [batch EXCEPT ![t] = NoBatch]
    /\ pc' = [pc EXCEPT ![t] = "set_lock"]
    /\ outcome' = [outcome EXCEPT ![t] = Running]
    /\ UNCHANGED <<world, cache, lock, scope, latest>>

\* ---- __getitem__ ----
GetCall(t, positions) ==
    /\ Call(t, [Frame("get", positions, EmptyDict, FALSE)
                    EXCEPT !.batch = BatchState(t),
                           !.seen = [v \in positions \cap DOMAIN latest |->
                                        [by |-> latest[v].by, value |-> latest[v].value,
                                         over |-> latest[v].over, kind |-> Kind(v)]],
                           !.undone = IF frame[t].flush /\ frame[t].failed
                                      THEN [v \in positions |->
                                                IF v \in DOMAIN scope[t].entered
                                                THEN scope[t].entered[v] ELSE world[v]]
                                      ELSE EmptyDict,
                           !.dropped = IF frame[t].flush /\ frame[t].failed
                                       THEN frame[t].blocks ELSE EmptyDict])
    /\ pc' = [pc EXCEPT ![t] = "get_lock"]
    /\ outcome' = [outcome EXCEPT ![t] = Running]
    /\ scope' = [scope EXCEPT ![t] = IF HasBatch(t) THEN @ ELSE NoScope]
    /\ UNCHANGED <<world, cache, lock, batch, latest>>

\* with self._lock: unknown = ...; the bulk fetch is issued when unknown is not empty
GetAcquire(t) ==
    /\ pc[t] = "get_lock"
    /\ Inside(t)
    /\ lock = NoThread
    /\ lock' = t
    /\ LET unknown == Unknown(frame[t].positions, cache, frame[t].batch)
       IN /\ frame' = [frame EXCEPT ![t].unknown = unknown]
          /\ pc' = [pc EXCEPT ![t] = IF unknown # {} THEN "get_fetch" ELSE "get_return"]
          /\ rlog' = [rlog EXCEPT ![t] =
                        IF unknown # {}
                        THEN <<Remote("fetch", unknown, EmptyDict)>>
                        ELSE <<>>]
    /\ UNCHANGED <<world, cache, batch, outcome, scope, latest, untouched>>

\* self._world.blocks[unknown] answers: self._cache.update(...)
GetFetchOk(t) ==
    /\ pc[t] = "get_fetch"
    /\ Inside(t)
    /\ cache' = DictUpdate(cache, [v \in frame[t].unknown |-> world[v]])
    /\ pc' = [pc EXCEPT ![t] = "get_return"]
    /\ rlog' = [rlog EXCEPT ![t] = Answered(@, "ok")]
    /\ UNCHANGED <<world, lock, batch, frame, outcome, scope, latest, untouched>>

\* a slip: the fetch raises and the lock stays with the thread
GetFetchFail_KeepsLock(t) ==
    /\ pc[t] = "get_fetch"
    /\ Inside(t)
    /\ pc' = [pc EXCEPT ![t] = "idle"]
    /\ outcome' = [outcome EXCEPT ![t] = Raised("RemoteError")]
    /\ rlog' = [rlog EXCEPT ![t] = Answered(@, "failed")]
    /\ UNCHANGED <<world, cache, lock, batch, frame, scope, latest, untouched>>

\* self._world.blocks[unknown] raises: the with statement releases the lock
GetFetchFail(t) ==
    /\ pc[t] = "get_fetch"
    /\ Inside(t)
    /\ lock' = NoThread
    /\ pc' = [pc EXCEPT ![t] = "idle"]
    /\ outcome' = [outcome EXCEPT ![t] = Raised("RemoteError")]
    /\ rlog' = [rlog EXCEPT ![t] = Answered(@, "failed")]
    /\ UNCHANGED <<world, cache, batch, frame, scope, latest, untouched>>

\* return {v: batch.get(v, self._cache[v]) for v in positions}
GetReturn(t) ==
    /\ pc[t] = "get_return"
    /\ Inside(t)
    /\ lock' = NoThread
    /\ pc' = [pc EXCEPT ![t] = "idle"]
    /\ outcome' = [outcome EXCEPT ![t] =
                    IF GetRaisesKeyError(frame[t].positions, cache, frame[t].batch)
                    THEN Raised("KeyError")
                    ELSE Returned(GetResult(frame[t].positions, cache, frame[t].batch))]
    /\ UNCHANGED <<world, cache, batch, frame, rlog, scope, latest, untouched>>

\* ---- __setitem__ ----
\* a batch is open on the thread: the pairs go to the overlay
SetBatched(t, blocks) ==
    /\ Call(t, Frame("set", DOMAIN blocks, blocks, FALSE))
    /\ "state" \in DOMAIN batch[t]
    /\ batch' = [batch EXCEPT ![t] =
                    [level |-> batch[t].level, state |-> BatchUpdate(batch[t].state, blocks)]]
    /\ outcome' = [outcome EXCEPT ![t] = Returned(EmptyDict)]
    /\ scope' = [scope EXCEPT ![t] =
                    [@ EXCEPT !.written = DictUpdate(@, blocks),
                              !.overwrote = @ \/ \E v \in DOMAIN blocks \cap DOMAIN scope[t].written :
                                                    blocks[v] # scope[t].written[v]]]
    /\ UNCHANGED <<world, cache, lock, pc, latest>>

\* no batch (AttributeError caught): the call goes for the lock
SetCall(t, blocks) ==
    /\ Call(t, Frame("set", DOMAIN blocks, blocks, FALSE))
    /\ "state" \notin DOMAIN batch[t]
    /\ pc' = [pc EXCEPT ![t] = "set_lock"]
    /\ outcome' = [outcome EXCEPT ![t] = Running]
    /\ scope' = [scope EXCEPT ![t] = NoScope]
    /\ UNCHANGED <<world, cache, lock, batch, latest>>

\* a slip: the set does not wait for the lock
SetAcquire_NoWait(t) ==
    /\ pc[t] = "set_lock"
    /\ Inside(t)
    /\ lock' = t
    /\ pc' = [pc EXCEPT ![t] = "set_locked"]
    /\ frame' = [frame EXCEPT ![t].before = cache]
    /\ UNCHANGED <<world, cache, batch, outcome, rlog, scope, latest, untouched>>

\* with self._lock:
SetAcquire(t) ==
    /\ pc[t] = "set_lock"
    /\ Inside(t)
    /\ lock = NoThread
    /\ lock' = t
    /\ pc' = [pc EXCEPT ![t] = "set_locked"]
    /\ frame' = [frame EXCEPT ![t].before = cache]
    /\ UNCHANGED <<world, cache, batch, outcome, rlog, scope, latest, untouched>>

\* the diff comprehension raises KeyError: the with statement releases the lock
SetKeyError(t) ==
    /\ pc[t] = "set_locked"
    /\ Inside(t)
    /\ SetRaisesKeyError(frame[t].blocks, cache)
    /\ lock' = NoThread
    /\ pc' = [pc EXCEPT ![t] = "idle"]
    /\ outcome' = [outcome EXCEPT ![t] = Raised("KeyError")]
    /\ latest' = Record(t)
    /\ frame' = Superseded(t)
    /\ UNCHANGED <<world, cache, batch, rlog, scope, untouched>>

\* the diff is computed and sent: with batch_start(): self._world.blocks[keys] = values
SetSend(t) ==
    /\ pc[t] = "set_locked"
    /\ Inside(t)
    /\ ~SetRaisesKeyError(frame[t].blocks, cache)
    /\ LET diff == Diff(frame[t].blocks, cache)
       IN /\ frame' = [frame EXCEPT ![t].diff = diff]
          /\ rlog' = [rlog EXCEPT ![t] =
                        <<Remote("send", DOMAIN diff, diff)>>]
    /\ pc' = [pc EXCEPT ![t] = "set_send"]
    /\ UNCHANGED <<world, cache, lock, batch, outcome, scope, latest, untouched>>

\* the remote write returns: self._cache.update(diff), and the lock is released
SetSendOk(t) ==
    /\ pc[t] = "set_send"
    /\ Inside(t)
    /\ world' = DictUpdate(world, frame[t].diff)
    /\ cache' = MergeAfterSend(cache, frame[t].diff)
    /\ lock' = NoThread
    /\ pc' = [pc EXCEPT ![t] = "idle"]
    /\ outcome' = [outcome EXCEPT ![t] = Returned(EmptyDict)]
    /\ latest' = Record(t)
    /\ rlog' = [rlog EXCEPT ![t] = Answered(@, "ok")]
    /\ frame' = Superseded(t)
    /\ UNCHANGED <<batch, scope, untouched>>

\* a slip: the failure of the remote write is swallowed
SetSendFail_Swallowed(t) ==
    /\ pc[t] = "set_send"
    /\ Inside(t)
    /\ \E applied \in TornWrites(frame[t].diff) : world' = DictUpdate(world, applied)
    /\ cache' = CacheAfterFailedSend(cache, frame[t].diff)
    /\ lock' = NoThread
    /\ pc' = [pc EXCEPT ![t] = "idle"]
    /\ outcome' = [outcome EXCEPT ![t] = Returned(EmptyDict)]
    /\ latest' = Restrict(latest, DOMAIN latest \ DOMAIN frame[t].blocks)
    /\ rlog' = [rlog EXCEPT ![t] = Answered(@, "failed")]
    /\ frame' = Superseded(t)
    /\ UNCHANGED <<batch, scope, untouched>>

\* the remote write raises: the cache is not updated, the lock is released
SetSendFail(t) ==
    /\ pc[t] = "set_send"
    /\ Inside(t)
    /\ \E applied \in TornWrites(frame[t].diff) : world' = DictUpdate(world, applied)
    /\ cache' = CacheAfterFailedSend(cache, frame[t].diff)
    /\ lock' = NoThread
    /\ pc' = [pc EXCEPT ![t] = "idle"]
    /\ outcome' = [outcome EXCEPT ![t] = Raised("RemoteError")]
    /\ latest' = Restrict(latest, DOMAIN latest \ DOMAIN frame[t].blocks)
    /\ rlog' = [rlog EXCEPT ![t] = Answered(@, "failed")]
    /\ frame' = Superseded(t)
    /\ UNCHANGED <<batch, scope, untouched>>

\* the steps of thread t, its gets asking for a set of positions of Q and its sets
\* writing a dict of D
Steps(t, Q, D) ==
    \/ Enter(t)
    \/ \E failed \in BOOLEAN : ExitNoBatch(t, failed)
    \/ \E failed \in BOOLEAN : ExitInner(t, failed)
    \/ \E failed \in BOOLEAN : ExitDiscard(t, failed)
    \/ \E failed \in BOOLEAN : ExitFlush(t, failed)
    \/ \E positions \in Q : GetCall(t, positions)
    \/ GetAcquire(t)
    \/ GetFetchOk(t)
    \/ GetFetchFail(t)
    \/ GetReturn(t)
    \/ \E blocks \in D : SetBatched(t, blocks)
    \/ \E blocks \in D : SetCall(t, blocks)
    \/ SetAcquire(t)
    \/ SetKeyError(t)
    \/ SetSend(t)
    \/ SetSendOk(t)
    \/ SetSendFail(t)

\* one thread, every set of positions, any number of calls
Next == Steps("A", SUBSET Coords, Dicts(Coords, Blocks))

Spec == InitUnlimited /\ [][Next]_vars

\* every thread, each get and set about the one position K1, at most MaxOpsThreads calls
NextThreads == \E t \in Threads : Steps(t, {{"K1"}}, [{"K1"} -> Blocks])

SpecThreads == InitThreads /\ [][NextThreads]_vars

\* ---- two threads, scheduled fairly ----
InitFair == Init /\ budget = MaxOpsFair

\* `with self._lock:` in __getitem__ and __setitem__: the thread waits for the lock
Waits(t) == GetAcquire(t) \/ SetAcquire(t)

\* the steps of a call that holds the lock, the answer of the remote store included
Runs(t) ==
    \/ GetFetchOk(t) \/ GetFetchFail(t) \/ GetReturn(t)
    \/ SetKeyError(t) \/ SetSend(t) \/ SetSendOk(t) \/ SetSendFail(t)

\* a thread inside a call keeps running and every remote call is answered (weak
\* fairness); a thread waiting for a lock that is free again and again gets it in the
\* end (strong fairness: the lock itself keeps no queue)
Fairness == \A t \in Threads : WF_vars(Runs(t)) /\ SF_vars(Waits(t))

SpecThreadsFair == InitFair /\ [][NextThreads]_vars /\ Fairness

\* ---- the Turtle and its screen ----
\* the Turtle methods one behaviour of SpecTurtle calls
MaxOpsTurtle == 4

\* clamp(value, -90, 90) in setelevation, up and down
MaxElevation == 90

Air == "air"
Stone == "stone"
Wool == "wool"
Gold == "gold"

\* picraft.vector: O, X, Y, Z and the operations on vectors of whole numbers
O == <<0, 0, 0>>
X == <<1, 0, 0>>
Y == <<0, 1, 0>>
Z == <<0, 0, 1>>

VecAdd(a, b) == <<a[1] + b[1], a[2] + b[2], a[3] + b[3]>>

VecSub(a, b) == <<a[1] - b[1], a[2] - b[2], a[3] - b[3]>>

VecScale(k, a) == <<k * a[1], k * a[2], k * a[3]>>

Cross(a, b) ==
    <<a[2] * b[3] - a[3] * b[2], a[3] * b[1] - a[1] * b[3], a[1] * b[2] - a[2] * b[1]>>

\* v.rotate(angle, about=Y) for an angle that is a multiple of 90: Z turns to X at 90
RECURSIVE Quarters(_, _)
Quarters(v, k) == IF k = 0 THEN v ELSE Quarters(<<v[3], v[2], -v[1]>>, k - 1)

RotateY(v, angle) == Quarters(v, (angle % 360) \div 90)

Abs(n) == IF n < 0 THEN -n ELSE n

Max2(a, b) == IF a > b THEN a ELSE b

\* p / n rounded to the nearest whole number
RoundDiv(p, n) == (2 * p + n) \div (2 * n)

\* line(a, b): the cells of the straight line from a to b, both ends included
Line(a, b) ==
    LET d == VecSub(b, a)
        n == Max2(Abs(d[1]), Max2(Abs(d[2]), Abs(d[3])))
    IN  IF n = 0 THEN {a}
        ELSE {<<a[1] + RoundDiv(d[1] * i, n), a[2] + RoundDiv(d[2] * i, n),
                a[3] + RoundDiv(d[3] * i, n)>> : i \in 0..n}

clamp(value, min_value, max_value) ==
    IF (IF min_value > value THEN min_value ELSE value) < max_value
    THEN (IF min_value > value THEN min_value ELSE value)
    ELSE max_value

\* the remote store of the screen: the blocks other than air, position by position
WorldAt(w, v) == IF v \in DOMAIN w THEN w[v] ELSE Air

WorldWrite(w, diff) ==
    LET u == DictUpdate(w, diff)
    IN  Restrict(u, {v \in DOMAIN u : u[v] # Air})

\* where the Turtle is constructed, and the world it is constructed in
Spawn == O

InitialWorld == (<<0, 0, 1>> :> Stone)

\* The({e : x \in {v}}) is e with x set to v, as `x = v` followed by the lines that
\* use x: v is computed once
The(S) == CHOOSE x \in S : TRUE

\* the remote store as the Turtle's screen reaches it: a fuse that is not armed lets
\* every remote call answer; an armed one lets `left` more calls answer and makes the
\* next one raise, a write then having applied the part of it that `part` names
NoFuse == [armed |-> FALSE, left |-> 0, part |-> "none"]

Fuse(n, part) == [armed |-> TRUE, left |-> n, part |-> part]

Answers(m) == ~m.fuse.armed \/ m.fuse.left > 0

Spent(fuse) == IF fuse.armed THEN [fuse EXCEPT !.left = @ - 1] ELSE fuse

TornParts == {"none", "some", "all"}

\* what a remote write that raises has applied: nothing, one position or all of it
TornPart(diff, part) ==
    IF part = "none" \/ diff = EmptyDict THEN EmptyDict
    ELSE IF part = "all" THEN diff
    ELSE Restrict(diff, {CHOOSE v \in DOMAIN diff : TRUE})

\* the remote call of m raises: the exception, and which call it was
Breaks(m, call) == [m EXCEPT !.raised = "RemoteError", !.failed_at = call, !.fuse = NoFuse]

\* TurtleCache as the one thread of a Turtle uses it; self holds the screen's world,
\* cache and batch, and what has been raised: once something is raised, the lines that
\* follow are not run, and `skipped` counts the scopes not entered, whose __exit__ is
\* not run either
TEnter(self) == The({
    IF m.raised # "none" THEN [m EXCEPT !.skipped = @ + 1]
    ELSE [m EXCEPT !.batch = IF "level" \in DOMAIN m.batch
                             THEN [level |-> m.batch.level + 1, state |-> m.batch.state]
                             ELSE [level |-> 1, state |-> EmptyDict]]
        : m \in {self}})

TGet(self, positions) == The({
    LET m == a[1]
        b == IF "state" \in DOMAIN m.batch THEN m.batch.state ELSE EmptyDict
        unknown == Unknown(a[2], m.cache, b)
        c == DictUpdate(m.cache, [v \in unknown |-> WorldAt(m.world, v)])
        f == IF unknown # {} THEN Spent(m.fuse) ELSE m.fuse
    IN  IF m.raised # "none" THEN m
        ELSE IF unknown # {} /\ ~Answers(m) THEN Breaks(m, "fetch")
        ELSE IF GetRaisesKeyError(a[2], c, b)
        THEN [m EXCEPT !.cache = c, !.fuse = f, !.raised = "KeyError"]
        ELSE [m EXCEPT !.cache = c, !.fuse = f, !.ret = GetResult(a[2], c, b)]
        : a \in {<<self, positions>>}})

\* __setitem__ without a batch; sends counts the remote writes issued
SetNoBatch(self, blocks) == The({
    LET m == a[1]
    IN  IF SetRaisesKeyError(a[2], m.cache)
        THEN [m EXCEPT !.raised = "KeyError"]
        ELSE IF ~Answers(m)
        THEN [Breaks(m, "send") EXCEPT
                 !.world = WorldWrite(@, TornPart(Diff(a[2], m.cache), m.fuse.part)),
                 !.cache = CacheAfterFailedSend(@, Diff(a[2], m.cache)),
                 !.sends = @ + 1]
        ELSE [m EXCEPT !.world = WorldWrite(@, Diff(a[2], m.cache)),
                       !.cache = MergeAfterSend(@, Diff(a[2], m.cache)),
                       !.fuse = Spent(@),
                       !.sends = @ + 1]
        : a \in {<<self, blocks>>}})

TSet(self, blocks) == The({
    LET m == a[1]
    IN  IF m.raised # "none" THEN m
        ELSE IF "state" \in DOMAIN m.batch
        THEN [m EXCEPT !.batch = [level |-> m.batch.level,
                                  state |-> BatchUpdate(m.batch.state, a[2])]]
        ELSE SetNoBatch(m, a[2])
        : a \in {<<self, blocks>>}})

\* a slip: every exit, nested or not, ends the batch
Outermost_Always(level) == TRUE

\* `if self._batch.level == 0:`, self._batch.level having been decremented
Outermost(level) == level - 1 = 0

\* flushes counts the remote writes that __exit__ issued
TExit(self) == The({
    IF m.skipped > 0 THEN [m EXCEPT !.skipped = @ - 1]
    ELSE IF "level" \notin DOMAIN m.batch
    THEN [m EXCEPT !.raised = IF @ = "none" THEN "AttributeError" ELSE @]
    ELSE IF ~Outermost(m.batch.level)
    THEN [m EXCEPT !.batch = [level |-> m.batch.level - 1, state |-> m.batch.state]]
    ELSE IF ExitFlushes(m.raised # "none")
    THEN SetNoBatch([m EXCEPT !.batch = NoBatch, !.flushes = @ + 1], m.batch.state)
    ELSE [m EXCEPT !.batch = NoBatch]
        : m \in {self}})

\* TurtleScreen.draw
Draw(self, state) == TSet(self, state)

\* ---- Turtle ----
TurtleState(position, heading, elevation, visible, pendown, penblock, fillblock, changed, action) ==
    [position |-> position, heading |-> heading, elevation |-> elevation,
     visible |-> visible, pendown |-> pendown, penblock |-> penblock,
     fillblock |-> fillblock, changed |-> changed, action |-> action]

Last(s) == s[Len(s)]

Front(s) == SubSeq(s, 1, Len(s) - 1)

\* a slip: the entry keeps no reverse diff
Replace_NoChanged(st, changed, action) == [st EXCEPT !.action = action]

\* self._state._replace(changed=..., action=action)
Replace(st, changed, action) == [st EXCEPT !.changed = changed, !.action = action]

\* a slip: the entry records the blocks drawn, not the blocks they replace
Commit_RecordsDrawn(self, changes, action) == The({
    The({
        IF g.raised # "none" THEN g
        ELSE IF ch # EmptyDict
        THEN Draw([g EXCEPT !.history = Append(@, Replace(g.state, ch, action))], ch)
        ELSE [g EXCEPT !.history = Append(@, Replace(g.state, ch, action))]
        : g \in {TGet(self, DOMAIN ch)}})
        : ch \in {changes}})

\* _commit(changes, action)
Commit(self, changes, action) == The({
    The({
        IF g.raised # "none" THEN g
        ELSE IF ch # EmptyDict
        THEN Draw([g EXCEPT !.history = Append(@, Replace(g.state, g.ret, action))], ch)
        ELSE [g EXCEPT !.history = Append(@, Replace(g.state, g.ret, action))]
        : g \in {TGet(self, DOMAIN ch)}})
        : ch \in {changes}})

\* _draw_vectors, for an elevation of -90, 0 or 90
ArmV(st) == IF Cross(st.heading, Y) = O THEN X ELSE Cross(st.heading, Y)

HeadV(st) ==
    IF st.elevation = 0 THEN st.heading
    ELSE IF st.elevation > 0 THEN Y ELSE VecSub(O, Y)

\* a slip: the marker is committed as a step of its own
MarkerAction_Move == "move"

\* the action tag of the entry _draw_turtle commits
MarkerAction == "turtle"

\* _draw_turtle
DrawTurtle(self) == The({
    LET st == m.state
        head == VecAdd(st.position, HeadV(st))
        left_arm == VecAdd(st.position, ArmV(st))
        right_arm == VecSub(st.position, ArmV(st))
        marker == [v \in {head, left_arm, right_arm} |-> Wool]
        state == IF st.pendown
                 THEN DictUpdate(marker, (st.position :> st.penblock))
                 ELSE marker
    IN  Commit(m, state, MarkerAction)
        : m \in {self}})

\* while self._history and self._history[-1].action == 'turtle': draw(pop().changed)
RECURSIVE PopMarkers(_)
PopMarkers(self) == The({
    IF m.raised = "none" /\ m.history # <<>> /\ Last(m.history).action = "turtle"
    THEN PopMarkers(Draw([m EXCEPT !.history = Front(@)], Last(m.history).changed))
    ELSE m
        : m \in {self}})

\* _undraw_turtle
UndrawTurtle(self) == TExit(PopMarkers(TEnter(self)))

\* a slip: a line is drawn whether or not the pen is down
DrawsLine_PenIgnored(st, last_position) == st.position # last_position

\* `if self._state.pendown and self._state.position != self._last_position:`
DrawsLine(st, last_position) == st.pendown /\ st.position # last_position

\* the commit of _update: a line or a move
UpdateCommit(self) == The({
    IF DrawsLine(a.state, a.last_position)
    THEN Commit(a, [v \in Line(a.last_position, a.state.position) |-> a.state.penblock],
                "line")
    ELSE Commit(a, EmptyDict, "move")
        : a \in {self}})

\* a slip: the marker is drawn whether or not the Turtle is visible
DrawIfVisible_Always(self) == DrawTurtle(self)

\* `if self._state.visible: self._draw_turtle()`
DrawIfVisible(self) == The({
    IF b.raised = "none" /\ b.state.visible THEN DrawTurtle(b) ELSE b
        : b \in {self}})

\* a slip: the last position is never brought up to date
UpdateLast_Skipped(self) == self

\* self._last_position = self._state.position
UpdateLast(self) == The({
    IF c.raised = "none" THEN [c EXCEPT !.last_position = c.state.position] ELSE c
        : c \in {self}})

\* _update is entered: `replaced` keeps the snapshot it finds, the one its caller has
\* just put in place
Entered(self) == The({
    IF m.raised # "none" THEN m ELSE [m EXCEPT !.replaced = m.state]
        : m \in {self}})

\* _update
Update(self) ==
    TExit(UpdateLast(DrawIfVisible(UpdateCommit(UndrawTurtle(TEnter(Entered(self)))))))

\* a slip: undo pops whatever entry is on top
UndoPops_Any(history) == TRUE

\* `if self._history[-1].action != 'home':`
UndoPops(history) == Last(history).action # "home"

\* a slip: undo leaves the snapshot and the last position as they are
UndoRestore_Kept(self) == self

\* self._state = self._history[-1]; self._last_position = self._state.position
UndoRestore(self) == The({
    IF p.raised # "none" THEN p
    ELSE IF p.history = <<>> THEN [p EXCEPT !.raised = "IndexError"]
    ELSE [p EXCEPT !.state = Last(p.history),
                   !.last_position = Last(p.history).position]
        : p \in {self}})

\* the lines of undo after _undraw_turtle
UndoPop(self) == The({
    IF a.raised = "none" /\ UndoPops(a.history)
    THEN UndoRestore(Draw([a EXCEPT !.history = Front(@)], Last(a.history).changed))
    ELSE a
        : a \in {self}})

\* undo
Undo(self) == TExit(DrawIfVisible(UndoPop(UndrawTurtle(TEnter(self)))))

\* a slip: home forgets the position it leaves, as reset does
Home_NoLine(self) ==
    Update([self EXCEPT !.state = [@ EXCEPT !.position = self.history[1].position,
                                            !.heading = Z, !.elevation = 0],
                        !.last_position = self.history[1].position])

\* home
Home(self) == The({
    IF m.raised # "none" THEN m
    ELSE Update([m EXCEPT !.state = [@ EXCEPT !.position = m.history[1].position,
                                              !.heading = Z, !.elevation = 0]])
        : m \in {self}})

\* a slip: clear pops until the history is empty
ClearPops_All(history) == history # <<>>

\* `while self._history[-1].action != 'home':`
ClearPops(history) == Last(history).action # "home"

\* a slip: clear pops the entry and does not write its reverse diff back
ClearPop_NoDraw(self) == [self EXCEPT !.history = Front(@)]

\* self._screen.draw(self._history.pop().changed), in clear
ClearPop(self) == The({
    Draw([m EXCEPT !.history = Front(@)], Last(m.history).changed)
        : m \in {self}})

\* while self._history[-1].action != 'home': draw(pop().changed)
RECURSIVE PopToHome(_)
PopToHome(self) == The({
    IF m.raised = "none" /\ ClearPops(m.history)
    THEN PopToHome(ClearPop(m))
    ELSE m
        : m \in {self}})

\* clear
Clear(self) == TExit(Update(PopToHome(TEnter(self))))

\* a slip: reset leaves the last position where clear left it
ResetLast_Kept(self) == self

\* self._last_position = self._history[0].position
ResetLast(self) == The({
    IF c.raised # "none" THEN c
    ELSE [c EXCEPT !.last_position = c.history[1].position]
        : c \in {self}})

\* reset
Reset(self) == TExit(Home(ResetLast(Clear(TEnter(self)))))

\* Turtle(screen, pos), on a screen whose cache is empty
Construct(w, pos) ==
    LET state == TurtleState(pos, Z, 0, TRUE, TRUE, Stone, Stone, EmptyDict, "home")
    IN  DrawTurtle([world |-> w, cache |-> EmptyDict, batch |-> NoBatch,
                    raised |-> "none", ret |-> EmptyDict, state |-> state,
                    last_position |-> pos, history |-> <<state>>,
                    sends |-> 0, flushes |-> 0, skipped |-> 0, fuse |-> NoFuse,
                    failed_at |-> "none", replaced |-> state])

WithState(m, st) == [m EXCEPT !.state = st]

goto(m, other) == Update(WithState(m, [m.state EXCEPT !.position = other]))

setelevation(m, to_angle) ==
    Update(WithState(m, [m.state EXCEPT
        !.elevation = clamp(to_angle, -MaxElevation, MaxElevation)]))

setheading(m, to_angle) ==
    Update(WithState(m, [m.state EXCEPT !.heading = RotateY(Z, to_angle)]))

forward(m, distance) ==
    Update(WithState(m, [m.state EXCEPT
        !.position = VecAdd(@, VecScale(distance, HeadV(m.state)))]))

backward(m, distance) ==
    Update(WithState(m, [m.state EXCEPT
        !.position = VecSub(@, VecScale(distance, HeadV(m.state)))]))

right(m, angle) ==
    Update(WithState(m, [m.state EXCEPT !.heading = RotateY(@, -angle)]))

left(m, angle) ==
    Update(WithState(m, [m.state EXCEPT !.heading = RotateY(@, angle)]))

down(m, angle) ==
    Update(WithState(m, [m.state EXCEPT
        !.elevation = clamp(@ - angle, -MaxElevation, MaxElevation)]))

up(m, angle) ==
    Update(WithState(m, [m.state EXCEPT
        !.elevation = clamp(@ + angle, -MaxElevation, MaxElevation)]))

pendown(m) == Update(WithState(m, [m.state EXCEPT !.pendown = TRUE]))

penup(m) == Update(WithState(m, [m.state EXCEPT !.pendown = FALSE]))

showturtle(m) == Update(WithState(m, [m.state EXCEPT !.visible = TRUE]))

hideturtle(m) == Update(WithState(m, [m.state EXCEPT !.visible = FALSE]))

penblock(m, block) == Update(WithState(m, [m.state EXCEPT !.penblock = block]))

fillblock(m, block) == Update(WithState(m, [m.state EXCEPT !.fillblock = block]))

\* ---- the calls on a Turtle ----
Distances == {2, 3, 5}

Angles == {90}

Targets == {<<1, 0, 2>>, <<0, 2, 0>>}

InitTurtle ==
    /\ InitCache
    /\ budget = Unlimited
    /\ agent = Construct(InitialWorld, Spawn)
    /\ journal = <<>>

\* one call of a method of the Turtle, from its first line to its return; the journal
\* keeps the call, its argument and the Turtle as it was when the call was made
TurtleCall(op, arg, result) ==
    /\ agent # NoAgent
    /\ agent.raised = "none"
    /\ Len(journal) < MaxOpsTurtle
    /\ agent' = result
    /\ journal' = Append(journal, [op |-> op, arg |-> arg, before |-> agent])
    /\ UNCHANGED <<world, cache, lock, batch, pc, frame, outcome, rlog, scope, latest,
                   untouched, caller, budget>>

TForward == \E distance \in Distances : TurtleCall("forward", <<distance>>, forward(agent, distance))

TBackward == \E distance \in {2} : TurtleCall("backward", <<distance>>, backward(agent, distance))

TRight == \E angle \in Angles : TurtleCall("right", <<angle>>, right(agent, angle))

TLeft == \E angle \in Angles : TurtleCall("left", <<angle>>, left(agent, angle))

TUp == \E angle \in Angles : TurtleCall("up", <<angle>>, up(agent, angle))

TDown == \E angle \in Angles : TurtleCall("down", <<angle>>, down(agent, angle))

TGoto == \E other \in Targets : TurtleCall("goto", other, goto(agent, other))

TSetHeading == \E to_angle \in {180} : TurtleCall("setheading", <<to_angle>>, setheading(agent, to_angle))

TSetElevation == \E to_angle \in {-90, 120} : TurtleCall("setelevation", <<to_angle>>, setelevation(agent, to_angle))

TPenDown == TurtleCall("pendown", <<>>, pendown(agent))

TPenUp == TurtleCall("penup", <<>>, penup(agent))

TShowTurtle == TurtleCall("showturtle", <<>>, showturtle(agent))

THideTurtle == TurtleCall("hideturtle", <<>>, hideturtle(agent))

TPenBlock == \E block \in {Gold} : TurtleCall("penblock", <<block>>, penblock(agent, block))

TFillBlock == \E block \in {Gold} : TurtleCall("fillblock", <<block>>, fillblock(agent, block))

THome == TurtleCall("home", <<>>, Home(agent))

TClear == TurtleCall("clear", <<>>, Clear(agent))

TReset == TurtleCall("reset", <<>>, Reset(agent))

TUndo == TurtleCall("undo", <<>>, Undo(agent))

NextTurtle ==
    \/ TForward
    \/ TBackward
    \/ TRight
    \/ TLeft
    \/ TUp
    \/ TDown
    \/ TGoto
    \/ TSetHeading
    \/ TSetElevation
    \/ TPenDown
    \/ TPenUp
    \/ TShowTurtle
    \/ THideTurtle
    \/ TPenBlock
    \/ TFillBlock
    \/ THome
    \/ TClear
    \/ TReset
    \/ TUndo

\* one Turtle on a screen of its own, the remote store answering every call;
\* at most MaxOpsTurtle calls
SpecTurtle == InitTurtle /\ [][NextTurtle]_vars

\* the remote calls that answer before one raises, at most
MaxFuse == 2

\* the connection of the Turtle's screen breaks at one of its first remote calls
InitTurtleFail ==
    /\ InitCache
    /\ budget = Unlimited
    /\ \E n \in 0..MaxFuse, part \in TornParts :
           agent = [Construct(InitialWorld, Spawn) EXCEPT !.fuse = Fuse(n, part)]
    /\ journal = <<>>

\* one Turtle whose calls go on until a remote call raises
SpecTurtleFail == InitTurtleFail /\ [][NextTurtle]_vars

\* ---- the claims ----
\* the remote writes a thread issued during its current (or last) call
Sends(t) == {i \in DOMAIN rlog[t] : rlog[t][i].call = "send"}

\* thread t's last call was a get that has ended
GetEnded(t) == pc[t] = "idle" /\ frame[t].op = "get"

\* thread t's last call was a set outside a batch
PlainSet(t) == frame[t].op = "set" /\ ~HasBatch(t)

\* thread t's last call was the __exit__ that closed its outermost scope without an
\* exception, and it has ended
FlushEnded(t) == pc[t] = "idle" /\ frame[t].op = "exit" /\ frame[t].flush /\ ~frame[t].failed

\* C1: every get ends by returning (unless the remote fetch itself failed) and returns,
\* for each requested position, the value of the calling thread's most recent set on it:
\* the overlay's value inside a batch, else the value of its last set that no other
\* thread's set followed, and the remote value for a position never set.
C1_GetReturnsLatestSet ==
    \A t \in Threads :
        GetEnded(t) =>
            /\ outcome[t].raised \in {"none", "RemoteError"}
            /\ outcome[t].raised = "none" =>
                \A v \in frame[t].positions :
                    /\ v \in DOMAIN scope[t].written =>
                            outcome[t].ret[v] = scope[t].written[v]
                    /\ (v \notin DOMAIN scope[t].written /\ v \in DOMAIN latest
                            /\ latest[v].by = t) =>
                            outcome[t].ret[v] = latest[v].value
                    /\ v \in untouched => outcome[t].ret[v] = world[v]

\* C2: a get inside an open batch returns (unless the remote fetch failed), for every
\* requested position, the overlay's value if the overlay holds the position, else the
\* shared cache's value, which is there by then.
C2_BatchGetOverlayFirst ==
    \A t \in Threads :
        (GetEnded(t) /\ HasBatch(t) /\ outcome[t].raised # "RemoteError") =>
            /\ outcome[t].raised = "none"
            /\ \A v \in frame[t].positions :
                IF v \in DOMAIN batch[t].state
                THEN outcome[t].ret[v] = batch[t].state[v]
                ELSE v \in DOMAIN cache /\ outcome[t].ret[v] = cache[v]

\* C3: while a thread has a scope open none of its calls writes to the remote store; an
\* __exit__ issues at most one remote call, a write only when it closes the outermost
\* scope without an exception; that write carries, of the last value set per position
\* inside the scopes, exactly the ones the cache did not hold already; and when the
\* exit returns, the cache holds the last value set per position.
C3_NestedBatchOneWrite ==
    \A t \in Threads :
        /\ HasBatch(t) => Sends(t) = {}
        /\ frame[t].op = "exit" =>
            /\ Len(rlog[t]) <= 1
            /\ Sends(t) # {} => frame[t].flush /\ ~frame[t].failed
            /\ \A i \in Sends(t) :
                /\ DOMAIN rlog[t][i].data \subseteq DOMAIN scope[t].written
                /\ \A v \in DOMAIN scope[t].written :
                    IF v \in DOMAIN rlog[t][i].data
                    THEN rlog[t][i].data[v] = scope[t].written[v]
                    ELSE frame[t].before[v] = scope[t].written[v]
        /\ (FlushEnded(t) /\ outcome[t].raised = "none") =>
            \A v \in DOMAIN scope[t].written : cache[v] = scope[t].written[v]

\* two scopes were nested, a position was set twice to different values, and the one
\* write of the final close carried a block
C3_Witness ==
    \E t \in Threads :
        /\ FlushEnded(t) /\ outcome[t].raised = "none"
        /\ scope[t].deepest >= 2 /\ scope[t].overwrote
        /\ Sends(t) # {} /\ \A i \in Sends(t) : rlog[t][i].data # EmptyDict

\* C4: a set outside a batch whose every value equals the cache's value for its position
\* makes no remote call and leaves the cache as it was.
C4_EmptyDiffNoRemoteCall ==
    \A t \in Threads :
        (/\ PlainSet(t)
         /\ frame[t].positions # {}
         /\ \A v \in frame[t].positions :
                v \in DOMAIN frame[t].before /\ frame[t].before[v] = frame[t].blocks[v]) =>
            /\ rlog[t] = <<>>
            /\ cache = frame[t].before

\* the step that closes a thread's outermost scope with failed = TRUE: the call returns
\* at once, issues no remote call, and leaves the cache and the remote store as they were
C5_DiscardStep ==
    \A t \in Threads :
        (/\ caller' = t
         /\ frame'[t].op = "exit" /\ frame'[t].failed
         /\ HasBatch(t) /\ batch[t].level = 1) =>
            /\ pc'[t] = "idle" /\ outcome'[t].raised = "none"
            /\ rlog'[t] = <<>>
            /\ cache' = cache /\ world' = world
            /\ batch'[t] = NoBatch

\* the get a thread makes right after such an exit, when it returns, returns for every
\* position the value from before the batch: the cache's at the first enter, else the
\* remote store's
C5_LaterGet ==
    \A t \in Threads :
        (GetEnded(t) /\ outcome[t].raised = "none") =>
            \A v \in DOMAIN frame[t].undone : outcome[t].ret[v] = frame[t].undone[v]

\* C5: an outermost __exit__ with an exception discards the overlay: no remote write,
\* the cache and the remote store unchanged, and a later get returns the pre-batch values.
C5_FailedExitDiscards == [][C5_DiscardStep]_vars /\ []C5_LaterGet

\* a get after a discarded batch returned a value other than the one the batch had set
C5_Witness ==
    \E t \in Threads :
        /\ GetEnded(t) /\ outcome[t].raised = "none"
        /\ \E v \in DOMAIN frame[t].undone \cap DOMAIN frame[t].dropped :
                outcome[t].ret[v] # frame[t].dropped[v]

\* C6: when the remote write of a set outside a batch raises, the call raises the same
\* error and the cache is as it was when the call took the lock; while the write is in
\* flight the cache does not hold the diff yet.
C6_FailedSendLeavesCache ==
    \A t \in Threads :
        (PlainSet(t) /\ Sends(t) # {}) =>
            /\ \A i \in Sends(t) :
                /\ rlog[t][i].status = "pending" => cache = frame[t].before
                /\ rlog[t][i].status = "failed" =>
                    /\ pc[t] = "idle"
                    /\ outcome[t].raised = "RemoteError"
                    /\ cache = frame[t].before

\* a remote write that carried a block failed
C6_Witness ==
    \E t \in Threads :
        /\ PlainSet(t) /\ pc[t] = "idle"
        /\ \E i \in Sends(t) : rlog[t][i].status = "failed" /\ rlog[t][i].data # EmptyDict

\* thread t's last call closed its outermost scope and the remote write of the flush raised
FlushFailed(t) ==
    /\ FlushEnded(t)
    /\ \E i \in Sends(t) : rlog[t][i].status = "failed"

C8_ExitStep ==
    \A t \in Threads :
        (caller' = t /\ frame'[t].op = "exit" /\ ~HasBatch(t)) =>
            /\ pc'[t] = "idle"
            /\ outcome'[t].raised = "AttributeError"
            /\ rlog'[t] = <<>>
            /\ cache' = cache /\ world' = world /\ lock' = lock
            /\ batch' = batch

\* C8: __exit__ on a thread with no open scope raises immediately and changes neither
\* the cache, nor the remote store, nor any thread's overlay.
C8_ExitWithoutBatchFails == [][C8_ExitStep]_vars

\* a thread that had opened and closed a scope called __exit__ once more and got the
\* error, while another thread held an overlay with a pair in it
C8_Witness ==
    \E t \in Threads :
        /\ pc[t] = "idle" /\ frame[t].op = "exit"
        /\ outcome[t].raised = "AttributeError"
        /\ scope[t].deepest >= 1
        /\ \E u \in Threads \ {t} : BatchState(u) # EmptyDict

\* C9: while a thread holds an open batch in which it set position K, after another
\* thread's set of K to v2 outside a batch and until the next set of K, a get of K by
\* any thread (unless its remote fetch fails) returns v2.
C9_NonBatchedSetVisibleToAll ==
    \A x \in Threads :
        (GetEnded(x) /\ outcome[x].raised # "RemoteError") =>
            \A v \in DOMAIN frame[x].seen :
                (/\ frame[x].seen[v].kind = "set"
                 /\ \E a \in frame[x].seen[v].over : v \in DOMAIN BatchState(a)) =>
                    /\ outcome[x].raised = "none"
                    /\ outcome[x].ret[v] = frame[x].seen[v].value

\* get call x, which returned, found that position v was last written by the flush of
\* another thread's batch, closed without an error, and no set has followed it
SawFlushOfOther(x, v) ==
    /\ GetEnded(x) /\ outcome[x].raised = "none"
    /\ v \in DOMAIN frame[x].seen
    /\ frame[x].seen[v].kind = "flushed"
    /\ frame[x].seen[v].by # x

\* a set inside an open batch changes the caller's overlay and nothing else, and makes
\* no remote call; the get that returns gives, per position, the caller's own overlay
\* value or else the cache's: never another thread's overlay value
C10_OverlayStep ==
    \A t \in Threads :
        /\ (caller' = t /\ frame'[t].op = "set" /\ HasBatch(t)) =>
                /\ cache' = cache /\ world' = world
                /\ rlog'[t] = <<>>
                /\ \A u \in Threads \ {t} : batch'[u] = batch[u]
        /\ (pc[t] = "get_return" /\ pc'[t] = "idle" /\ outcome'[t].raised = "none") =>
                \A v \in frame[t].positions :
                    outcome'[t].ret[v] =
                        IF v \in DOMAIN BatchState(t) THEN BatchState(t)[v] ELSE cache[v]

\* C10 as the specification states it (its second half): once a batch has been flushed
\* without an error, every other thread's later get returns the flushed values.
C10_FlushedWritesReturnedToAll ==
    \A x \in Threads : \A v \in DOMAIN frame[x].seen :
        SawFlushOfOther(x, v) => outcome[x].ret[v] = frame[x].seen[v].value

\* the second half, amended: every other thread's later get returns the flushed value
\* of each position its own overlay does not hold, and its own overlay's value otherwise
C10_FlushedWritesReturned ==
    \A x \in Threads : \A v \in DOMAIN frame[x].seen :
        SawFlushOfOther(x, v) =>
            outcome[x].ret[v] =
                IF v \in DOMAIN frame[x].batch THEN frame[x].batch[v]
                ELSE frame[x].seen[v].value

\* C10, amended: the pairs set inside an open batch stay in the caller's overlay, out of
\* the cache, the remote store and every other thread's gets, until the outermost scope
\* closes; after it has closed without an error, the other threads' gets return them
\* for every position their own overlay does not hold.
C10_BatchWritesIsolatedThenVisible ==
    /\ [][C10_OverlayStep]_vars
    /\ [](\A t \in Threads : HasBatch(t) => Sends(t) = {})
    /\ []C10_FlushedWritesReturned

\* a thread without an overlay got, from the cache, a block another thread's batch had
\* flushed, other than the block the remote store started with
C10_Witness ==
    \E x \in Threads : \E v \in DOMAIN frame[x].seen :
        /\ SawFlushOfOther(x, v)
        /\ v \notin DOMAIN frame[x].batch
        /\ outcome[x].ret[v] = "stone"

\* thread t is inside the `with self._lock:` block of __getitem__ or __setitem__
InCritical(t) == pc[t] \in {"get_fetch", "get_return", "set_locked", "set_send"}

\* the remote fetch of thread t's get is in progress
Fetching(t) == pc[t] = "get_fetch"

\* C11: while the remote bulk fetch of a get is in progress the calling thread does not
\* hold the lock.
C11_LockFreeDuringFetch ==
    \A t \in Threads : Fetching(t) => lock # t

\* every step that changes the cache is a step of the thread that holds the lock, taken
\* inside its locked block
C12_CacheStep ==
    cache' # cache =>
        /\ lock \in Threads
        /\ InCritical(lock)
        /\ pc'[lock] # pc[lock]

\* C12: a thread is at a point of get, set or flush that reads or updates the cache only
\* while it holds the lock, no two threads are at such a point together, and only the
\* holder's steps change the cache.
C12_CacheTouchedUnderLock ==
    /\ [](\A t \in Threads : InCritical(t) <=> lock = t)
    /\ [][C12_CacheStep]_vars

\* a thread's remote write with a block in it is in flight, under the lock, while the
\* other thread's get or set waits for the lock
C12_Witness ==
    \E t \in Threads : \E u \in Threads \ {t} :
        /\ pc[t] = "set_send" /\ frame[t].diff # EmptyDict /\ lock = t
        /\ pc[u] \in {"get_lock", "set_lock"}

StateChanging ==
    {"forward", "backward", "left", "right", "up", "down", "goto", "setheading",
     "setelevation", "penup", "pendown", "penblock", "fillblock", "showturtle",
     "hideturtle", "home", "clear", "reset"}

\* what a user sees of a snapshot
Visible(st) ==
    <<st.position, st.heading, st.elevation, st.pendown, st.visible, st.penblock,
      st.fillblock>>

\* the call before the last one, and the Turtle as it was when that call was made
Prev == journal[Len(journal) - 1]

\* the last call was undo(), and the call before it one of ops
UndoAfter(ops) ==
    /\ Len(journal) >= 2
    /\ Last(journal).op = "undo"
    /\ Prev.op \in ops

\* the Turtle and every cell are as they were before the call that undo() followed
Restored ==
    /\ Visible(agent.state) = Visible(Prev.before.state)
    /\ agent.world = Prev.before.world

\* C14 as stated: undo() after any state-changing call, clear() and reset() included,
\* restores position, heading, elevation, flags and blocks, and every cell
C14_UndoInvertsEveryOp == UndoAfter(StateChanging) => Restored

\* C14, amended: undo() after any state-changing call other than clear() and reset()
\* restores position, heading, elevation, pen and visibility flags, pen and fill
\* blocks, and every cell of the world to what they were before that call
C14_UndoInvertsStep == UndoAfter(StateChanging \ {"clear", "reset"}) => Restored

\* undo() followed a forward() that drew, and everything is as before the forward()
C14_Witness ==
    /\ UndoAfter({"forward"})
    /\ Restored
    /\ Last(journal).before.world # agent.world
    /\ Last(Last(journal).before.history).action = "turtle"

\* the history entries undo() can pop: neither the home entry nor a marker
UndoableSteps(m) ==
    Cardinality({i \in DOMAIN m.history : m.history[i].action \notin {"home", "turtle"}})

\* the state-changing calls among the first k of the journal that no undo() has undone;
\* with discards, clear() discards the calls before it and counts as one, reset() as two
RECURSIVE NotUndone(_, _)
NotUndone(k, discards) ==
    IF k = 0 THEN 0
    ELSE IF journal[k].op = "undo"
    THEN (IF NotUndone(k - 1, discards) > 0 THEN NotUndone(k - 1, discards) - 1 ELSE 0)
    ELSE IF discards /\ journal[k].op = "clear" THEN 1
    ELSE IF discards /\ journal[k].op = "reset" THEN 2
    ELSE NotUndone(k - 1, discards) + 1

\* a marker entry is only ever the last entry of the history
MarkerOnlyOnTop ==
    \A i \in DOMAIN agent.history :
        agent.history[i].action = "turtle" => i = Len(agent.history)

\* C15 as stated: the undo-able steps are as many as the state-changing calls made and
\* not yet undone, each call counting as one
C15_StepsEqualCalls == UndoableSteps(agent) = NotUndone(Len(journal), FALSE)

\* C15, amended: the undo-able steps are as many as the state-changing calls made since
\* the last clear() or reset() and not yet undone, plus one for a clear() and two for a
\* reset(); a marker entry is never below another entry, so it is never a step
C15_StepsEqualCallsSinceClear ==
    /\ UndoableSteps(agent) = NotUndone(Len(journal), TRUE)
    /\ MarkerOnlyOnTop

\* calls were made, one of them undone, a marker was redrawn, and steps remain
C15_Witness ==
    /\ \E k \in DOMAIN journal : journal[k].op = "undo" /\ k > 1
    /\ Last(journal).op \in {"forward", "left"}
    /\ Last(agent.history).action = "turtle"
    /\ UndoableSteps(agent) = 2
    /\ UndoableSteps(agent) = NotUndone(Len(journal), TRUE)

\* the last call was undo(), made when the history held the home entry and at most
\* marker entries above it
UndoAtHome ==
    /\ journal # <<>>
    /\ Last(journal).op = "undo"
    /\ UndoableSteps(Last(journal).before) = 0

\* C16: undo() with nothing but the home entry (and perhaps a marker) in the history
\* raises nothing, pops no entry other than the marker it redraws, and leaves the
\* snapshot, the last position and every cell as they were
C16_UndoAtHomeIsNoOp ==
    UndoAtHome =>
        /\ agent.raised = "none"
        /\ agent.history = Last(journal).before.history
        /\ agent.state = Last(journal).before.state
        /\ agent.last_position = Last(journal).before.last_position
        /\ agent.world = Last(journal).before.world

\* undo() was called a second time after the one call made had been undone, with the
\* marker drawn
C16_Witness ==
    /\ UndoAtHome
    /\ Len(journal) = 3
    /\ journal[1].op = "forward"
    /\ Len(agent.history) = 2
    /\ agent.history[1].action = "home"
    /\ agent.history[2].action = "turtle"

\* the last call was reset()
AfterReset == journal # <<>> /\ Last(journal).op = "reset"

\* the cells of the marker of a Turtle at the spawn, in its home orientation
SpawnMarker == {Spawn, VecAdd(Spawn, Z), VecAdd(Spawn, X), VecSub(Spawn, X)}

\* the world just after the Turtle was constructed, its first marker drawn
ConstructedWorld == Construct(InitialWorld, Spawn).world

\* C17 as stated: after reset() the position is the spawn and every cell holds a value
\* it had at the spawn, before or after the first marker was drawn
C17_ResetLeavesNoCellModified ==
    AfterReset =>
        /\ agent.state.position = Spawn
        /\ \A v \in DOMAIN agent.world \cup DOMAIN ConstructedWorld :
               WorldAt(agent.world, v) \in
                   {WorldAt(InitialWorld, v), WorldAt(ConstructedWorld, v)}

\* C17, amended: after reset() the position is the spawn, every cell that is not a cell
\* of the marker at the spawn holds the value it had before the Turtle was constructed,
\* and the marker's cells hold what drawing the marker writes: the marker block at head
\* and arms and the pen block at the spawn if the Turtle is visible (the spawn cell only
\* if the pen is down), their first values otherwise
C17_ResetLeavesOnlyMarker ==
    AfterReset =>
        /\ agent.state.position = Spawn
        /\ \A v \in (DOMAIN agent.world \cup DOMAIN InitialWorld) \ SpawnMarker :
               WorldAt(agent.world, v) = WorldAt(InitialWorld, v)
        /\ \A v \in SpawnMarker \ {Spawn} :
               WorldAt(agent.world, v) =
                   IF agent.state.visible THEN Wool ELSE WorldAt(InitialWorld, v)
        /\ WorldAt(agent.world, Spawn) =
               IF agent.state.visible /\ agent.state.pendown
               THEN agent.state.penblock
               ELSE WorldAt(InitialWorld, Spawn)

\* reset() was called with the pen down, away from the spawn, lines drawn
C17_Witness ==
    /\ AfterReset
    /\ Last(journal).before.state.pendown
    /\ Last(journal).before.state.position \notin SpawnMarker
    /\ \E i \in DOMAIN Last(journal).before.history :
           Last(journal).before.history[i].action = "line"
    /\ agent.state.position = Spawn

\* the calls that run _update once on the snapshot they have just replaced
OneUpdate == StateChanging \ {"clear", "reset"}

\* the history without its marker entries
IsStep(e) == e.action # "turtle"

NonMarker(h) == SelectSeq(h, IsStep)

\* the world without the marker: what it holds once the trailing marker entry is undrawn
BareWorld(m) ==
    IF Last(m.history).action = "turtle"
    THEN WorldWrite(m.world, Last(m.history).changed)
    ELSE m.world

\* the last call ran _update once: the Turtle before it, and the entry it pushed
Before == Last(journal).before

Pushed == Last(NonMarker(agent.history))

UpdatedOnce == journal # <<>> /\ Last(journal).op \in OneUpdate

\* the pen was down and the position changed when _update ran
PenMoved == agent.state.pendown /\ agent.state.position # Before.last_position

Path == Line(Before.last_position, agent.state.position)

\* C18: each _update pushes exactly one non-marker entry; with the pen down and the
\* position changed it is a 'line', the pen block is written to every cell of the
\* inclusive line from the last to the new position and the reverse diff holds exactly
\* those cells' prior values (after forward() the cells still hold the pen block once
\* the marker is drawn); otherwise it is a 'move' with an empty reverse diff and no
\* cell is written but those of the marker. The _update of clear() and both of
\* reset() push a 'move' each
C18_UpdatePushesOneEntry ==
    /\ UpdatedOnce =>
           /\ NonMarker(agent.history) = Append(NonMarker(Before.history), Pushed)
           /\ Visible(Pushed) = Visible(agent.state)
           /\ PenMoved =>
                  /\ Pushed.action = "line"
                  /\ Pushed.changed = [v \in Path |-> WorldAt(BareWorld(Before), v)]
                  /\ BareWorld(agent) =
                         WorldWrite(BareWorld(Before),
                                    [v \in Path |-> agent.state.penblock])
                  /\ Last(journal).op = "forward" =>
                         \A v \in Path : WorldAt(agent.world, v) = agent.state.penblock
           /\ ~PenMoved =>
                  /\ Pushed.action = "move"
                  /\ Pushed.changed = EmptyDict
                  /\ BareWorld(agent) = BareWorld(Before)
    /\ (journal # <<>> /\ Last(journal).op \in {"clear", "reset"}) =>
           /\ Len(NonMarker(agent.history)) = (IF Last(journal).op = "clear" THEN 2 ELSE 3)
           /\ \A i \in 2..Len(NonMarker(agent.history)) :
                  /\ NonMarker(agent.history)[i].action = "move"
                  /\ NonMarker(agent.history)[i].changed = EmptyDict

\* forward(5) from the spawn, heading +Z, pen down: the cells (0,0,0)..(0,0,5) hold the
\* pen block and the entry pushed is a 'line' over those six cells
C18_Witness ==
    /\ Len(journal) = 1
    /\ journal[1].op = "forward"
    /\ journal[1].arg = <<5>>
    /\ agent.state.position = <<0, 0, 5>>
    /\ Pushed.action = "line"
    /\ DOMAIN Pushed.changed = {<<0, 0, z>> : z \in 0..5}
    /\ \A z \in 0..5 : WorldAt(agent.world, <<0, 0, z>>) = Stone

\* the calls made so far are the first n of penup(); forward(3); pendown(); forward(2)
Scenario(n) ==
    /\ Len(journal) = n
    /\ n >= 1 => journal[1].op = "penup"
    /\ n >= 2 => journal[2].op = "forward" /\ journal[2].arg = <<3>>
    /\ n >= 3 => journal[3].op = "pendown"
    /\ n >= 4 => journal[4].op = "forward" /\ journal[4].arg = <<2>>

\* the cells drawing has changed: those that, the marker undrawn, hold another value
\* than before the Turtle was constructed
Drawn ==
    {v \in DOMAIN BareWorld(agent) \cup DOMAIN InitialWorld :
        WorldAt(BareWorld(agent), v) # WorldAt(InitialWorld, v)}

\* the cells of the 'line' entries of the history
LineCells ==
    UNION {DOMAIN agent.history[i].changed :
              i \in {j \in DOMAIN agent.history : agent.history[j].action = "line"}}

\* C19 as stated: after penup(); forward(3); pendown(); forward(2) from the spawn,
\* exactly 2 cells are changed by drawing
C19_TwoCellsDrawn == Scenario(4) => Cardinality(Drawn) = 2 /\ Cardinality(LineCells) = 2

\* C19, amended: the pen-up forward(3) draws nothing, and after the whole sequence
\* exactly the 3 cells of the inclusive line of the second forward, (0,0,3)..(0,0,5),
\* are changed by drawing, not the 6 from the spawn
C19_ThreeCellsDrawn ==
    /\ Scenario(2) => Drawn = {} /\ LineCells = {}
    /\ Scenario(3) => Drawn = {} /\ LineCells = {}
    /\ Scenario(4) =>
           /\ Drawn = {<<0, 0, z>> : z \in 3..5}
           /\ LineCells = Drawn

\* the whole sequence has run and the Turtle stands at (0,0,5), pen down
C19_Witness ==
    /\ Scenario(4)
    /\ agent.state.position = <<0, 0, 5>>
    /\ agent.state.pendown
    /\ Cardinality(Drawn) = 3

\* the entry the constructor puts first in the history
HomeEntry == TurtleState(Spawn, Z, 0, TRUE, TRUE, Stone, Stone, EmptyDict, "home")

\* the history has its first entry, the constructor's, and no other entry tagged 'home'
HistoryKeepsHome ==
    /\ agent.history # <<>>
    /\ agent.history[1] = HomeEntry
    /\ \A i \in 2..Len(agent.history) : agent.history[i].action # "home"

\* C20: after any sequence of calls the history is non-empty, its first entry is the one
\* the constructor made, tagged 'home', no other entry is tagged 'home', and no call
\* pops the first entry or fails
C20_HomeEntryStays == HistoryKeepsHome /\ agent.raised = "none"

\* undo(), clear() and reset() have all run, and entries were pushed and popped
C20_Witness ==
    /\ HistoryKeepsHome
    /\ {"undo", "clear", "reset", "forward"} = {journal[k].op : k \in DOMAIN journal}
    /\ Last(journal).op = "undo"
    /\ Len(agent.history) > 1

\* a call has been made and has returned
CallMade == journal # <<>> /\ Last(journal).op \in StateChanging \cup {"undo"}

\* C21: every call that goes through _update, and undo, clear and reset, leaves no batch
\* open and issues at most one remote write, the flush of its outermost scope: the
\* remote writes issued since the call began are the flushes issued since, one at most
C21_OneWritePerCall ==
    CallMade =>
        /\ agent.batch = NoBatch
        /\ agent.sends - Before.sends = agent.flushes - Before.flushes
        /\ agent.sends - Before.sends <= 1

\* reset(), which nests the scopes of clear, home and their _update, was called after a
\* line was drawn, and one remote write carried all of its cell writes
C21_Witness ==
    /\ CallMade
    /\ Last(journal).op = "reset"
    /\ \E i \in DOMAIN Before.history : Before.history[i].action = "line"
    /\ agent.world # Before.world
    /\ agent.sends = Before.sends + 1
    /\ agent.flushes = Before.flushes + 1

\* the last call was clear()
AfterClear == journal # <<>> /\ Last(journal).op = "clear"

\* C22: after clear() the history is the home entry and one 'move' entry with an empty
\* reverse diff, then the marker entry if the Turtle is visible; every reverse diff has
\* been written back, so the world without the marker is the one before construction;
\* position, heading and elevation are those before clear()
C22_ClearLeavesOneMove ==
    AfterClear =>
        /\ Len(agent.history) = (IF agent.state.visible THEN 3 ELSE 2)
        /\ agent.history[1] = HomeEntry
        /\ agent.history[2].action = "move"
        /\ agent.history[2].changed = EmptyDict
        /\ agent.state.visible => agent.history[3].action = "turtle"
        /\ BareWorld(agent) = InitialWorld
        /\ agent.state.position = Before.state.position
        /\ agent.state.heading = Before.state.heading
        /\ agent.state.elevation = Before.state.elevation

\* clear() was called away from the spawn, turned, with lines and moves in the history
C22_Witness ==
    /\ AfterClear
    /\ Len(Before.history) >= 4
    /\ \E i \in DOMAIN Before.history : Before.history[i].action = "line"
    /\ agent.state.position # Spawn
    /\ agent.state.heading # Z
    /\ agent.world # Before.world

\* the last call was home()
AfterHome == journal # <<>> /\ Last(journal).op = "home"

\* the pen was down and the Turtle away from the origin when home() was called
HomeDraws == Before.state.pendown /\ Before.state.position # Before.history[1].position

HomePath == Line(Before.state.position, Before.history[1].position)

\* C23: home() puts the position at the origin kept in the first history entry, the
\* heading and elevation at their defaults, and pushes one undo-able entry; with the pen
\* down and the Turtle away from the origin the entry is a 'line' and the pen block is
\* written along the line from the position before the call to the origin, otherwise
\* nothing is drawn
C23_HomeGoesThroughUpdate ==
    AfterHome =>
        /\ agent.state.position = agent.history[1].position
        /\ agent.state.heading = Z
        /\ agent.state.elevation = 0
        /\ UndoableSteps(agent) = UndoableSteps(Before) + 1
        /\ NonMarker(agent.history) = Append(NonMarker(Before.history), Pushed)
        /\ HomeDraws =>
               /\ Pushed.action = "line"
               /\ DOMAIN Pushed.changed = HomePath
               /\ BareWorld(agent) =
                      WorldWrite(BareWorld(Before),
                                 [v \in HomePath |-> agent.state.penblock])
        /\ ~HomeDraws =>
               /\ Pushed.action = "move"
               /\ BareWorld(agent) = BareWorld(Before)

\* home() was called with the pen down, away from the origin and turned, and drew its
\* line over cells that held another block than the pen block
C23_Witness ==
    /\ AfterHome
    /\ HomeDraws
    /\ Before.state.heading # Z
    /\ Pushed.action = "line"
    /\ \E v \in HomePath : Pushed.changed[v] # agent.state.penblock

\* C24: after the construction and after every call, a marker entry is only ever the last
\* entry of the history, so there is at most one, and the last entry is a marker entry
\* exactly when the Turtle is visible
C24_MarkerLastIffVisible ==
    /\ \A i \in DOMAIN agent.history :
           agent.history[i].action = "turtle" => i = Len(agent.history)
    /\ Cardinality({i \in DOMAIN agent.history : agent.history[i].action = "turtle"}) <= 1
    /\ (Last(agent.history).action = "turtle") <=> agent.state.visible

\* the Turtle was hidden, moved drawing a line, and the line's entry is the last one
C24_Witness ==
    /\ ~agent.state.visible
    /\ journal # <<>>
    /\ Last(journal).op = "forward"
    /\ Last(agent.history).action = "line"
    /\ Last(Before.history).action # "turtle"

\* ---- more claims about the cache ----
\* what each kind of step does to the overlay and the level of thread t
C25_OverlayStep ==
    \A t \in Threads :
        /\ (caller' = t /\ frame'[t].op = "enter") =>
               batch'[t] = IF HasBatch(t)
                           THEN [level |-> batch[t].level + 1, state |-> batch[t].state]
                           ELSE [level |-> 1, state |-> EmptyDict]
        /\ (caller' = t /\ frame'[t].op = "exit" /\ HasBatch(t)) =>
               batch'[t] = IF batch[t].level = 1
                           THEN NoBatch
                           ELSE [level |-> batch[t].level - 1, state |-> batch[t].state]
        /\ (caller' = t /\ frame'[t].op = "set" /\ ~HasBatch(t)) =>
               /\ batch'[t] = NoBatch
               /\ pc'[t] = "set_lock"
        /\ ~(caller' = t /\ frame'[t].op \in {"enter", "exit"}) =>
               /\ ("level" \in DOMAIN batch'[t]) <=> HasBatch(t)
               /\ HasBatch(t) => batch'[t].level = batch[t].level

\* a thread has an overlay exactly when it has a level, and the level is then 1 or more
C25_OverlayShape ==
    \A t \in Threads :
        IF HasBatch(t)
        THEN DOMAIN batch[t] = {"level", "state"} /\ batch[t].level >= 1
        ELSE batch[t] = NoBatch

\* C25: a thread has an overlay exactly while its level is at least 1; the first
\* __enter__ makes an empty overlay at level 1, a nested one keeps the overlay and raises
\* the level, an __exit__ lowers it and at level 0 removes both, whether the scope
\* failed or not and however the flush ends; no other step of any thread changes them,
\* and a set by a thread without an overlay goes to the lock
C25_OverlayWhileNested == [][C25_OverlayStep]_vars /\ []C25_OverlayShape

\* a thread nested two scopes, its flush at the outermost exit failed, and it has
\* neither overlay nor level
C25_Witness ==
    \E t \in Threads :
        /\ pc[t] = "idle"
        /\ frame[t].op = "exit" /\ frame[t].flush
        /\ outcome[t].raised \notin {"none", "running"}
        /\ scope[t].deepest = 2
        /\ batch[t] = NoBatch

\* ---- the claims about a Turtle whose remote calls fail ----
\* the last call raised because a remote call failed
CallFailed == journal # <<>> /\ agent.raised = "RemoteError"

\* the history as the call found it, its marker entries popped
Stripped == NonMarker(Before.history)

\* C26: when a remote call fails during a call that goes through _update, the error
\* reaches the caller and no batch stays open; the snapshot is the one the call put in
\* place before _update; the history keeps what was done before the failure, the marker
\* entries popped and the entries pushed; and the cache holds, for every position, the
\* value it held before the call or the one fetched, none of the call's cell writes
C26_FailedUpdateKeepsPartialState ==
    (CallFailed /\ Last(journal).op \in StateChanging \ {"clear", "reset"}) =>
        /\ agent.failed_at \in {"fetch", "send"}
        /\ agent.batch = NoBatch
        /\ agent.state = agent.replaced
        /\ agent.failed_at = "fetch" =>
               /\ agent.last_position = Before.last_position
               /\ \/ agent.history = Stripped
                  \/ /\ Front(agent.history) = Stripped
                     /\ Last(agent.history).action \in {"line", "move"}
        /\ agent.failed_at = "send" =>
               /\ agent.last_position = agent.state.position
               /\ NonMarker(agent.history) = Append(Stripped, Pushed)
               /\ (Last(agent.history).action = "turtle") <=> agent.state.visible
        /\ \A v \in DOMAIN agent.cache :
               agent.cache[v] = IF v \in DOMAIN Before.cache THEN Before.cache[v]
                                ELSE WorldAt(Before.world, v)

\* a forward() with the pen down failed at the fetch of its line's cells, after the
\* marker entry had been popped: the snapshot is the new one, the history one shorter
C26_Witness ==
    /\ CallFailed
    /\ Last(journal).op = "forward"
    /\ agent.failed_at = "fetch"
    /\ agent.state.position # Before.state.position
    /\ Last(Before.history).action = "turtle"
    /\ agent.history = Stripped

\* a call failed at the flush of its outermost scope, part of the write applied
C26_WitnessFlush ==
    /\ CallFailed
    /\ agent.failed_at = "send"
    /\ agent.state # Before.state
    /\ agent.world # Before.world
    /\ agent.cache = Before.cache

\* ---- C27: the shared cache agrees with the remote store ----
\* every position the shared cache holds maps to the block the remote store holds
CacheAgrees == \A v \in DOMAIN cache : cache[v] = world[v]

\* the step is not a remote write that raised after changing the store
AtomicWrite ==
    \A t \in Threads :
        (pc[t] = "set_send" /\ outcome'[t].raised = "RemoteError") => world' = world

\* C27: as long as no remote write fails after taking effect, every position in the
\* shared cache maps to the block the remote store holds, whatever gets, sets outside a
\* batch and batch flushes the threads interleave. The fetch and the send are answered
\* with the lock held, so the cache agrees in every state, the lock free or not.
C27_CacheAgreesWithStore == [][(CacheAgrees /\ AtomicWrite) => CacheAgrees']_vars

\* both threads have changed the store, one by a set outside a batch, the other by
\* the flush of its batch, and the lock is free again
C27_Witness ==
    /\ lock = NoThread
    /\ \A t \in Threads : pc[t] = "idle"
    /\ frame["A"].flush /\ frame["A"].diff # EmptyDict /\ outcome["A"].raised = "none"
    /\ frame["B"].op = "set" /\ frame["B"].diff # EmptyDict /\ outcome["B"].raised = "none"
    /\ "K1" \in DOMAIN cache
    /\ CacheAgrees

\* ---- C28: the lock is released on every path, every call completes ----
\* a thread that is not between taking the lock and leaving the with block holds no lock
LockReleased == \A t \in Threads : pc[t] \in {"idle", "get_lock", "set_lock"} => lock # t

\* the lock changes hands only through being free: nobody takes a lock that is held,
\* the thread holding it included
LockTakenFree == (lock' # lock /\ lock' # NoThread) => lock = NoThread

\* the flush of __exit__ asks for the lock with the thread's batch already removed
FlushAfterBatchRemoved ==
    \A t \in Threads : (pc[t] # "idle" /\ frame[t].flush) => ~HasBatch(t)

\* every call a thread has begun returns or raises
Completes == \A t \in Threads : (pc[t] # "idle") ~> (pc[t] = "idle")

\* C28: the lock is released on every exit path of get and set, a remote call that
\* raises included; it is never taken while held; the flush runs with the batch state
\* removed; and under fair scheduling with remote calls that answer, every get, set and
\* __exit__ a thread has begun completes.
C28_LockReleasedCallsComplete ==
    /\ [](LockReleased /\ FlushAfterBatchRemoved)
    /\ [][LockTakenFree]_vars
    /\ Completes

\* a get of one thread has raised out of the with block on a failing fetch, and the
\* flush of the other thread's batch has taken the lock after it and completed
C28_Witness ==
    /\ \A t \in Threads : pc[t] = "idle"
    /\ lock = NoThread
    /\ frame["A"].flush /\ frame["A"].diff # EmptyDict /\ outcome["A"].raised = "none"
    /\ frame["B"].op = "get" /\ outcome["B"].raised = "RemoteError"

\* ---- C29: an inner scope left with an exception ----
\* the step is thread t leaving an inner scope with an exception
InnerFailedExit(t) ==
    /\ caller' = t
    /\ frame'[t].op = "exit" /\ frame'[t].failed
    /\ HasBatch(t) /\ batch[t].level - 1 # 0

\* leaving an inner scope with an exception lowers the level and nothing else: the
\* overlay, the shared cache and the remote store stay as they are, no remote call
InnerFailedExitKeepsOverlay ==
    \A t \in Threads :
        InnerFailedExit(t) =>
            /\ batch'[t] = [level |-> batch[t].level - 1, state |-> batch[t].state]
            /\ cache' = cache /\ world' = world
            /\ rlog'[t] = <<>> /\ pc'[t] = "idle"
            /\ outcome'[t].raised = "none"

\* the outermost __exit__ without an exception has ended, not on a failure of the
\* remote store, and the call before it left an inner scope with an exception, just
\* after a set made inside that scope
FlushEndedAfterInnerFailure(t) ==
    /\ FlushEnded(t)
    /\ outcome[t].raised # "RemoteError"
    /\ frame[t].inside # {}

\* the flush carried, or the shared cache held already, the last value set per position
FlushCarriesWritten(t) ==
    /\ frame[t].inside \subseteq DOMAIN scope[t].written
    /\ Sends(t) # {}
    /\ \A i \in Sends(t) :
            \A v \in DOMAIN scope[t].written :
                /\ v \in DOMAIN rlog[t][i].data => rlog[t][i].data[v] = scope[t].written[v]
                /\ v \notin DOMAIN rlog[t][i].data =>
                        v \in DOMAIN frame[t].before
                            /\ frame[t].before[v] = scope[t].written[v]
    /\ \A v \in DOMAIN scope[t].written :
            v \in DOMAIN cache /\ cache[v] = scope[t].written[v]

\* C29: leaving an inner scope with an exception keeps the overlay unchanged, and when
\* the outermost scope is then left without an exception the exit completes with every
\* position set inside the scopes, those set inside the inner scope that failed
\* included, flushed with its last value.
C29_FailedInnerScopeStillFlushed ==
    /\ [][InnerFailedExitKeepsOverlay]_vars
    /\ [](\A t \in Threads :
            FlushEndedAfterInnerFailure(t) =>
                outcome[t].raised = "none" /\ FlushCarriesWritten(t))

\* the same, for the flushes that do not end with the KeyError of a position the shared
\* cache does not hold
FlushedWhenCached ==
    /\ [][InnerFailedExitKeepsOverlay]_vars
    /\ [](\A t \in Threads :
            (FlushEndedAfterInnerFailure(t) /\ outcome[t].raised = "none") =>
                FlushCarriesWritten(t))

\* an inner scope with a write was left with an exception and the flush of the
\* outermost scope has carried that write to the remote store
FlushedAfterInnerFailure ==
    \E t \in Threads :
        /\ FlushEndedAfterInnerFailure(t) /\ outcome[t].raised = "none"
        /\ \E i \in Sends(t) : frame[t].inside \cap DOMAIN rlog[t][i].data # {}

\* ---- C30: the snapshot is the topmost entry that is not the marker ----
\* C30: after every call that returned, undo, clear and reset included, what the snapshot
\* holds (position, heading, elevation, visible, pen down, pen block, fill block) is what
\* the topmost history entry other than the marker's holds, and the last known position
\* is the snapshot's position.
C30_SnapshotIsTopEntry ==
    agent.raised = "none" =>
        /\ NonMarker(agent.history) # <<>>
        /\ Visible(agent.state) = Visible(Last(NonMarker(agent.history)))
        /\ agent.last_position = agent.state.position

\* an undo has taken the Turtle back to another position, under a visible marker
C30_Witness ==
    /\ journal # <<>> /\ Last(journal).op = "undo"
    /\ agent.raised = "none"
    /\ agent.state.position # Before.state.position
    /\ agent.state.visible /\ Last(agent.history).action = "turtle"
    /\ Visible(agent.state) = Visible(Last(NonMarker(agent.history)))
    /\ agent.last_position = agent.state.position

\* ---- C31: the history unwinds everything the Turtle has drawn ----
RECURSIVE Unwind(_, _)
\* the world once the reverse diffs of the entries of h are written back, from the top
\* down to the home entry, which is left out
Unwind(w, h) ==
    IF h = <<>> \/ Last(h).action = "home" THEN w
    ELSE Unwind(WorldWrite(w, Last(h).changed), Front(h))

\* C31: after any sequence of calls that returned, writing back the reverse diffs of the
\* history entries from the top down to the home entry (not included) gives every cell
\* the value it had before the Turtle was constructed, the marker's cells included.
C31_HistoryUnwindsWorld ==
    agent.raised = "none" =>
        /\ agent.history[1].action = "home"
        /\ agent.batch = NoBatch
        /\ Unwind(agent.world, agent.history) = InitialWorld

\* a line was drawn over the cell that held stone before the Turtle was constructed and
\* the cell holds another block now, under a history that ends with the marker's entry
C31_Witness ==
    /\ agent.raised = "none"
    /\ Len(journal) >= 3
    /\ Last(agent.history).action = "turtle"
    /\ \E i \in DOMAIN agent.history :
           /\ agent.history[i].action = "line"
           /\ <<0, 0, 1>> \in DOMAIN agent.history[i].changed
           /\ agent.history[i].changed[<<0, 0, 1>>] = Stone
    /\ WorldAt(agent.world, <<0, 0, 1>>) \notin {Stone, Wool}
    /\ Unwind(agent.world, agent.history) = InitialWorld

====
